---- MODULE Spec2Model ----
(***************************************************************************)
(* Model of the character-stream and tokenizer fragments of the tutorial   *)
(* corpus:                                                                 *)
(*   - CharStream (07_while_let.rs): new / next / peek and the draining    *)
(*     `while let Some(c) = stream.next()` loop of main;                   *)
(*   - the "Scanner Tokens" iterator chain of 14_chaining.rs:              *)
(*     input.chars().map(classify).filter(not Whitespace).collect().       *)
(* Characters are one-character strings; Option<char> is a sequence of     *)
(* length 0 (None) or 1 (Some(c)).                                         *)
(***************************************************************************)
EXTENDS Integers, Sequences, FiniteSets, TLC

\* ------------------------------------------------------------------ bounds
MaxLen == 3

\* Length of the digit run used to exceed the i64 range (i64::MAX has 19
\* decimal digits).
LongRunLen == 20

\* Characters the inputs are drawn from: digits, the space, a tab, the four
\* arithmetic operator characters, a letter, a double quote and a residual
\* character.
Alphabet == {"1", "2", " ", "\t", "+", "-", "*", "/", "a", "\"", "@"}

\* The literal of 14_chaining.rs: "12 + 34 - 5"
ScannerInput == <<"1", "2", " ", "+", " ", "3", "4", " ", "-", " ", "5">>

\* The text "foo_1 + 2"
IdentInput == <<"f", "o", "o", "_", "1", " ", "+", " ", "2">>

\* A run of nines too long for an i64
LongRunInput == [i \in 1..LongRunLen |-> "9"]

RECURSIVE SeqsUpTo(_)
SeqsUpTo(n) ==
    IF n = 0 THEN {<< >>}
    ELSE LET S == SeqsUpTo(n - 1)
         IN  S \cup {Append(s, c) : s \in {t \in S : Len(t) = n - 1}, c \in Alphabet}

Inputs == SeqsUpTo(MaxLen)

\* ------------------------------------------------------------ Option<char>
None == << >>
Some(c) == <<c>>

VARIABLES
    chars,      \* CharStream.chars
    pos,        \* CharStream.pos
    op,         \* the CharStream method called last ("new", "next", "peek")
    ret,        \* the value that call returned
    ended,      \* some earlier next() returned None
    reread,     \* a method was called after next() had returned None
    dpc,        \* position of main's draining loop: "loop" or "done"
    dout,       \* the characters the draining loop printed
    input,      \* 14_chaining: the text being tokenized
    idx,        \* 14_chaining: number of characters input.chars() has yielded
    tokens,     \* 14_chaining: the Vec<Token> that collect() is building
    srcs,       \* 14_chaining: srcs[k] is the 1-based index of the character
                \*   tokens[k] was mapped from
    tpc,        \* 14_chaining: "collect" while collect() is pulling, then "done"
    ends,       \* 14_chaining: number of times the chain returned None
    insts,      \* two CharStream instances: insts[i] = [chars, pos]
    logs,       \* logs[i]: the calls made on instance i, each with its result
    sched,      \* the instances called so far, in call order
    spc,        \* 07_while_let peek loop: "loop", then "broke" (break) or "end" (None)
    found,      \* 07_while_let peek loop: the characters printed as Found
    lastPeek,   \* 07_while_let peek loop: what the latest peek() returned
    state,      \* 13_loop_matches: the State of the state-machine loop
    iterations, \* 13_loop_matches: its iteration counter
    visited,    \* 13_loop_matches: the states printed, in order
    mpc,        \* 13_loop_matches main: "machine", then "tokens", then "done"
    tlist,      \* 13_loop_matches: the token list `input`
    iter,       \* 13_loop_matches: number of items input.iter() has yielded
    processed,  \* 13_loop_matches: the tokens printed as Processing
    tout,       \* 13_loop_matches: "running", then "eof" or "exhausted"
    args,       \* 12_cmdline: the argument vector, program name first
    ai,         \* 12_cmdline: the loop index i
    verbose,    \* 12_cmdline
    number,     \* 12_cmdline: Option<i32>
    positional_args, \* 12_cmdline
    cpc,        \* 12_cmdline main: "loop", then "returned" (-h) or "summary"
    treat,      \* 12_cmdline: how each argument after the program name was handled
    errs,       \* 12_cmdline: the error messages written, by kind
    lpc,        \* 14_chaining lazy example: "start", "built", "collect", "done"
    lazy_iter,  \* 14_chaining: [range: next value of 1..100, n: what take may still yield]
    evals,      \* 14_chaining: the values the filter closure was evaluated on
    result      \* 14_chaining: the Vec being collected

twVars == <<insts, logs, sched>>

scVars == <<spc, found, lastPeek>>
lmVars == <<state, iterations, visited, mpc, tlist, iter, processed, tout>>
cmVars == <<args, ai, verbose, number, positional_args, cpc, treat, errs>>
lzVars == <<lpc, lazy_iter, evals, result>>

\* the variables of the other programs of the corpus
restVars == <<twVars, scVars, lmVars, cmVars, lzVars>>

vars == <<chars, pos, op, ret, ended, reread, dpc, dout, input, idx, tokens, srcs, tpc, ends,
          restVars>>
csVars == <<chars, pos, op, ret, ended, reread>>
drVars == <<dpc, dout>>
tkVars == <<input, idx, tokens, srcs, tpc, ends>>

\* =============================================================== CharStream

\* CharStream::new(s): chars = s.chars().collect(), pos = 0
CharStreamNew(s) == [chars |-> s, pos |-> 0]

\* `Some(self.chars[i])`: indexing a Vec past its end panics.
Panicked == <<"index out of bounds">>
IndexOrPanic(cs, i) == IF i < Len(cs) THEN Some(cs[i + 1]) ELSE Panicked

\* A next() that forgets `self.pos += 1`.
NextNoAdvance(s) ==
    IF s.pos < Len(s.chars)
    THEN [ret |-> Some(s.chars[s.pos + 1]), st |-> s]
    ELSE [ret |-> None, st |-> s]

\* A next() that increments before reading (returns the following character).
NextSkipsOne(s) ==
    IF s.pos < Len(s.chars)
    THEN [ret |-> IF s.pos + 1 < Len(s.chars) THEN Some(s.chars[s.pos + 2]) ELSE None,
          st  |-> [s EXCEPT !.pos = @ + 1]]
    ELSE [ret |-> None, st |-> s]

\* A next() whose increment sits outside the bounds test.
NextOverruns(s) ==
    IF s.pos < Len(s.chars)
    THEN [ret |-> Some(s.chars[s.pos + 1]), st |-> [s EXCEPT !.pos = @ + 1]]
    ELSE [ret |-> None, st |-> [s EXCEPT !.pos = @ + 1]]

\* A next() that rewinds to the start when it reaches the end.
NextRewinds(s) ==
    IF s.pos < Len(s.chars)
    THEN [ret |-> Some(s.chars[s.pos + 1]), st |-> [s EXCEPT !.pos = @ + 1]]
    ELSE [ret |-> None, st |-> [s EXCEPT !.pos = 0]]

\* CharStream::next(&mut self): Rust indexes chars from 0, sequences here
\* from 1, so chars[self.pos] is s.chars[s.pos + 1].
CharStreamNext(s) ==
    IF s.pos < Len(s.chars)
    THEN [ret |-> IndexOrPanic(s.chars, s.pos), st |-> [s EXCEPT !.pos = @ + 1]]
    ELSE [ret |-> None, st |-> s]

\* A peek() whose bounds test is `<=`.
PeekOffByOne(s) ==
    IF s.pos <= Len(s.chars)
    THEN [ret |-> IndexOrPanic(s.chars, s.pos), st |-> s]
    ELSE [ret |-> None, st |-> s]

\* A peek() that consumes the character it looks at.
PeekConsumes(s) ==
    IF s.pos < Len(s.chars)
    THEN [ret |-> Some(s.chars[s.pos + 1]), st |-> [s EXCEPT !.pos = @ + 1]]
    ELSE [ret |-> None, st |-> s]

\* A peek() that looks at the character after the current one.
PeekLooksAhead(s) ==
    IF s.pos + 1 < Len(s.chars)
    THEN [ret |-> Some(s.chars[s.pos + 2]), st |-> s]
    ELSE [ret |-> None, st |-> s]

\* CharStream::peek(&self)
CharStreamPeek(s) ==
    IF s.pos < Len(s.chars)
    THEN [ret |-> IndexOrPanic(s.chars, s.pos), st |-> s]
    ELSE [ret |-> None, st |-> s]

Stream == [chars |-> chars, pos |-> pos]

\* stream.next()
CallNext ==
    LET r == CharStreamNext(Stream) IN
    /\ chars' = r.st.chars
    /\ pos' = r.st.pos
    /\ op' = "next"
    /\ ret' = r.ret
    /\ ended' = (ended \/ r.ret = None)
    /\ reread' = (reread \/ ended)
    /\ UNCHANGED <<drVars, tkVars, restVars>>

\* stream.peek()
CallPeek ==
    LET r == CharStreamPeek(Stream) IN
    /\ chars' = r.st.chars
    /\ pos' = r.st.pos
    /\ op' = "peek"
    /\ ret' = r.ret
    /\ reread' = (reread \/ ended)
    /\ UNCHANGED <<ended, drVars, tkVars, restVars>>

\* A loop whose None arm does not leave the loop.
DrainIgnoresNone ==
    /\ dpc = "loop"
    /\ LET r == CharStreamNext(Stream) IN
       /\ chars' = r.st.chars
       /\ pos' = r.st.pos
       /\ op' = "next"
       /\ ret' = r.ret
       /\ ended' = (ended \/ r.ret = None)
       /\ reread' = (reread \/ ended)
       /\ dout' = (IF r.ret # None THEN Append(dout, r.ret[1]) ELSE dout)
       /\ dpc' = dpc
    /\ UNCHANGED <<tkVars, restVars>>

\* One turn of `while let Some(c) = stream.next() { print!("{} ", c); }`:
\* the call, the pattern test, and the body when the pattern matches.
DrainStep ==
    /\ dpc = "loop"
    /\ LET r == CharStreamNext(Stream) IN
       /\ chars' = r.st.chars
       /\ pos' = r.st.pos
       /\ op' = "next"
       /\ ret' = r.ret
       /\ ended' = (ended \/ r.ret = None)
       /\ reread' = (reread \/ ended)
       /\ IF r.ret # None
          THEN dout' = Append(dout, r.ret[1]) /\ dpc' = dpc
          ELSE dout' = dout /\ dpc' = "done"
    /\ UNCHANGED <<tkVars, restVars>>

\* ============================================= 14_chaining.rs: Scanner Tokens

\* `c as i64`: the code point of a character
Ord(c) ==
    CASE c = "0" -> 48 [] c = "1" -> 49 [] c = "2" -> 50 [] c = "3" -> 51
      [] c = "4" -> 52 [] c = "5" -> 53 [] c = "6" -> 54 [] c = "7" -> 55
      [] c = "8" -> 56 [] c = "9" -> 57
      [] c = " " -> 32 [] c = "\t" -> 9
      [] c = "+" -> 43 [] c = "-" -> 45 [] c = "*" -> 42 [] c = "/" -> 47
      [] c = "a" -> 97 [] c = "@" -> 64 [] c = "\"" -> 34
      [] c = "f" -> 102 [] c = "o" -> 111 [] c = "_" -> 95

\* enum Token { Number(i64), Plus, Minus, Whitespace, Unknown(char) }
Number(v) == [kind |-> "Number", val |-> v]
Plus == [kind |-> "Plus"]
Minus == [kind |-> "Minus"]
Whitespace == [kind |-> "Whitespace"]
Unknown(c) == [kind |-> "Unknown", ch |-> c]

\* A closure that stores the code point instead of the digit's value.
ClassifyNoOffset(c) ==
    CASE Ord(c) >= Ord("0") /\ Ord(c) <= Ord("9") -> Number(Ord(c))
      [] c = "+" -> Plus
      [] c = "-" -> Minus
      [] c = " " -> Whitespace
      [] OTHER -> Unknown(c)

\* A closure with the two operator arms exchanged.
ClassifySwapsOps(c) ==
    CASE Ord(c) >= Ord("0") /\ Ord(c) <= Ord("9") -> Number(Ord(c) - Ord("0"))
      [] c = "+" -> Minus
      [] c = "-" -> Plus
      [] c = " " -> Whitespace
      [] OTHER -> Unknown(c)

\* A closure whose wildcard arm forgets which character it saw.
ClassifyUnknownBlank(c) ==
    CASE Ord(c) >= Ord("0") /\ Ord(c) <= Ord("9") -> Number(Ord(c) - Ord("0"))
      [] c = "+" -> Plus
      [] c = "-" -> Minus
      [] c = " " -> Whitespace
      [] OTHER -> Unknown(" ")

\* A closure with one more arm, which drops the double quote like a space.
ClassifyQuoteDropped(c) ==
    CASE Ord(c) >= Ord("0") /\ Ord(c) <= Ord("9") -> Number(Ord(c) - Ord("0"))
      [] c = "+" -> Plus
      [] c = "-" -> Minus
      [] c = " " -> Whitespace
      [] c = "\"" -> Whitespace
      [] OTHER -> Unknown(c)

\* A closure whose wildcard arm comes first and so takes every character.
ClassifyWildFirst(c) ==
    CASE TRUE -> Unknown(c)
      [] Ord(c) >= Ord("0") /\ Ord(c) <= Ord("9") -> Number(Ord(c) - Ord("0"))
      [] c = "+" -> Plus
      [] c = "-" -> Minus
      [] c = " " -> Whitespace

\* The patterns of the match arms, by the variant each arm builds; the
\* wildcard `_` is the arm left when no pattern before it matches.
ArmPatterns ==
    [Number     |-> {"0", "1", "2", "3", "4", "5", "6", "7", "8", "9"},
     Plus       |-> {"+"},
     Minus      |-> {"-"},
     Whitespace |-> {" "}]
ArmsApplying(c) ==
    LET named == {a \in DOMAIN ArmPatterns : c \in ArmPatterns[a]}
    IN  IF named = {} THEN {"Unknown"} ELSE named

\* A closure that subtracts the wrong way round.
ClassifyReversedDiff(c) ==
    CASE Ord(c) >= Ord("0") /\ Ord(c) <= Ord("9") -> Number(Ord("0") - Ord(c))
      [] c = "+" -> Plus
      [] c = "-" -> Minus
      [] c = " " -> Whitespace
      [] OTHER -> Unknown(c)

\* The closure given to map(): the first arm that matches decides.
Classify(c) ==
    CASE Ord(c) >= Ord("0") /\ Ord(c) <= Ord("9") -> Number(Ord(c) - Ord("0"))
      [] c = "+" -> Plus
      [] c = "-" -> Minus
      [] c = " " -> Whitespace
      [] OTHER -> Unknown(c)

\* A predicate that lost its negation.
IsKeptInverted(t) == t.kind = "Whitespace"

\* A predicate that keeps every token.
IsKeptAll(t) == TRUE

\* A predicate that also rejects Unknown tokens.
IsKeptDropsUnknown(t) == ~(t.kind \in {"Whitespace", "Unknown"})

\* The closure given to filter(): !matches!(t, Token::Whitespace)
IsKept(t) == ~(t.kind = "Whitespace")

\* A chain that ends at the first rejected token instead of skipping it.
RECURSIVE FilterStopsAtRejected(_, _)
FilterStopsAtRejected(text, i) ==
    IF i >= Len(text)
    THEN [ret |-> None, idx |-> i]
    ELSE LET t == Classify(text[i + 1]) IN
         IF IsKept(t)
         THEN [ret |-> <<t>>, idx |-> i + 1]
         ELSE [ret |-> None, idx |-> i + 1]

\* A chain that gives up at the first Unknown token.
RECURSIVE FilterAbortsOnUnknown(_, _)
FilterAbortsOnUnknown(text, i) ==
    IF i >= Len(text)
    THEN [ret |-> None, idx |-> i]
    ELSE LET t == Classify(text[i + 1]) IN
         IF t.kind = "Unknown"
         THEN [ret |-> None, idx |-> i + 1]
         ELSE IF IsKept(t)
              THEN [ret |-> <<t>>, idx |-> i + 1]
              ELSE FilterAbortsOnUnknown(text, i + 1)

\* A chain that, after a rejected token, also throws away the character
\* that follows it.
RECURSIVE FilterSkipsExtra(_, _)
FilterSkipsExtra(text, i) ==
    IF i >= Len(text)
    THEN [ret |-> None, idx |-> Len(text)]
    ELSE LET t == Classify(text[i + 1]) IN
         IF IsKept(t)
         THEN [ret |-> <<t>>, idx |-> i + 1]
         ELSE FilterSkipsExtra(text, i + 2)

\* next() of input.chars().map(..).filter(..) with i characters already
\* yielded by chars(): pull characters, map each, return the first token
\* the predicate keeps, or None once chars() is exhausted.
RECURSIVE FilterNext(_, _)
FilterNext(text, i) ==
    IF i >= Len(text)
    THEN [ret |-> None, idx |-> i]
    ELSE LET t == Classify(text[i + 1]) IN
         IF IsKept(t)
         THEN [ret |-> <<t>>, idx |-> i + 1]
         ELSE FilterNext(text, i + 1)

\* collect() as a function of the text: the tokens pulled from the chain, in
\* order, until it returns None.
RECURSIVE CollectFrom(_, _)
CollectFrom(text, i) ==
    LET r == FilterNext(text, i) IN
    IF r.ret = None THEN << >> ELSE <<r.ret[1]>> \o CollectFrom(text, r.idx)

\* One turn of collect(): pull the chain once, push the token or stop.
CollectPull ==
    /\ tpc = "collect"
    /\ LET r == FilterNext(input, idx) IN
       /\ idx' = r.idx
       /\ IF r.ret # None
          THEN /\ tokens' = Append(tokens, r.ret[1])
               /\ srcs' = Append(srcs, r.idx)
               /\ UNCHANGED <<tpc, ends>>
          ELSE /\ tpc' = "done"
               /\ ends' = ends + 1
               /\ UNCHANGED <<tokens, srcs>>
    /\ UNCHANGED <<input, csVars, drVars, restVars>>

\* ==================================================== two CharStream instances

\* bounds of the two-instance runs: text length and total number of calls
MaxTwoLen == 2
MaxCalls == 4

RECURSIVE SeqsOverUpTo(_, _)
SeqsOverUpTo(A, n) ==
    IF n = 0 THEN {<< >>}
    ELSE LET S == SeqsOverUpTo(A, n - 1)
         IN  S \cup {Append(s, c) : s \in {t \in S : Len(t) = n - 1}, c \in A}

TwoInputs == SeqsOverUpTo({"a", "1"}, MaxTwoLen)

Called(i, name, r) ==
    /\ insts' = [insts EXCEPT ![i] = r.st]
    /\ logs' = [logs EXCEPT ![i] = Append(@, [op |-> name, ret |-> r.ret])]
    /\ sched' = Append(sched, i)

\* A next() whose position is one cursor shared by all instances (a static).
TwoNextSharedCursor(i) ==
    /\ Len(sched) < MaxCalls
    /\ LET r == CharStreamNext([chars |-> insts[i].chars, pos |-> insts[1].pos]) IN
       /\ insts' = [j \in DOMAIN insts |-> [insts[j] EXCEPT !.pos = r.st.pos]]
       /\ logs' = [logs EXCEPT ![i] = Append(@, [op |-> "next", ret |-> r.ret])]
       /\ sched' = Append(sched, i)
    /\ UNCHANGED <<csVars, drVars, tkVars, scVars, lmVars, cmVars, lzVars>>

\* insts[i].next()
TwoNext(i) ==
    /\ Len(sched) < MaxCalls
    /\ Called(i, "next", CharStreamNext(insts[i]))
    /\ UNCHANGED <<csVars, drVars, tkVars, scVars, lmVars, cmVars, lzVars>>

\* insts[i].peek()
TwoPeek(i) ==
    /\ Len(sched) < MaxCalls
    /\ Called(i, "peek", CharStreamPeek(insts[i]))
    /\ UNCHANGED <<csVars, drVars, tkVars, scVars, lmVars, cmVars, lzVars>>

\* the results a fresh CharStream over text gives, alone, to the calls ops
RECURSIVE Replay(_, _)
Replay(s, ops) ==
    IF ops = << >> THEN << >>
    ELSE LET r == IF Head(ops) = "next" THEN CharStreamNext(s) ELSE CharStreamPeek(s)
         IN  <<[op |-> Head(ops), ret |-> r.ret]>> \o Replay(r.st, Tail(ops))

TwoStart(s1, s2) ==
    /\ insts = <<CharStreamNew(s1), CharStreamNew(s2)>>
    /\ logs = <<<< >>, << >>>>
    /\ sched = << >>

TwoIdle == TwoStart(<< >>, << >>)

\* ============================================ 07_while_let: the peek loop

\* the state before `while let Some(c) = stream.peek()`
ScanStart ==
    /\ spc = "loop"
    /\ found = << >>
    /\ lastPeek = None

\* main: let mut stream = CharStream::new("a1b2")
ScanInput == <<"a", "1", "b", "2">>

\* char::is_alphanumeric on the characters of the model's texts
IsAlphanumeric(c) ==
    c \in {"0", "1", "2", "3", "4", "5", "6", "7", "8", "9", "a", "b", "f", "o"}

\* A loop that takes its character with next() instead of peek().
ScanConsumesBreaker ==
    /\ spc = "loop"
    /\ LET n == CharStreamNext(Stream) IN
       /\ lastPeek' = n.ret
       /\ chars' = n.st.chars
       /\ pos' = n.st.pos
       /\ op' = "next"
       /\ ret' = n.ret
       /\ IF n.ret = None
          THEN spc' = "end" /\ UNCHANGED found
          ELSE IF IsAlphanumeric(n.ret[1])
               THEN found' = Append(found, n.ret[1]) /\ UNCHANGED spc
               ELSE spc' = "broke" /\ UNCHANGED found
    /\ UNCHANGED <<ended, reread, drVars, tkVars, twVars, lmVars, cmVars, lzVars>>

\* one iteration of `while let Some(c) = stream.peek() { if c.is_alphanumeric()
\* { stream.next(); println!(c) } else { break } }`
ScanStep ==
    /\ spc = "loop"
    /\ LET p == CharStreamPeek(Stream) IN
       /\ lastPeek' = p.ret
       /\ IF p.ret = None
          THEN /\ spc' = "end"
               /\ chars' = p.st.chars
               /\ pos' = p.st.pos
               /\ op' = "peek"
               /\ ret' = p.ret
               /\ UNCHANGED found
          ELSE IF IsAlphanumeric(p.ret[1])
               THEN LET n == CharStreamNext(p.st) IN
                    /\ chars' = n.st.chars
                    /\ pos' = n.st.pos
                    /\ op' = "next"
                    /\ ret' = n.ret
                    /\ found' = Append(found, p.ret[1])
                    /\ UNCHANGED spc
               ELSE /\ spc' = "broke"
                    /\ chars' = p.st.chars
                    /\ pos' = p.st.pos
                    /\ op' = "peek"
                    /\ ret' = p.ret
                    /\ UNCHANGED found
    /\ UNCHANGED <<ended, reread, drVars, tkVars, twVars, lmVars, cmVars, lzVars>>

\* ===================================================== 13_loop_matches

\* 13_loop_matches main: `let mut state = State::Ready; let mut iterations = 0;`
\* and, further down, `let input = vec![..]; let mut iter = input.iter();`
LoopStart(list) ==
    /\ state = "Ready"
    /\ iterations = 0
    /\ visited = << >>
    /\ mpc = "machine"
    /\ tlist = list
    /\ iter = 0
    /\ processed = << >>
    /\ tout = "running"

LoopIdle == LoopStart(<< >>)

\* Token::Eof
Eof == [kind |-> "Eof"]

\* let input = vec![Token::Number(1), Token::Plus, Token::Number(2), Token::Eof]
LoopInput == <<Number(1), Plus, Number(2), Eof>>

\* bound on the length of the other token lists tried
MaxToks == 3

TokenValues == {Number(1), Number(2), Plus, Minus, Eof}

TokenLists == SeqsOverUpTo(TokenValues, MaxToks) \cup {LoopInput}

\* A match whose guard on Running is `iterations > 3`.
TransitionLateGuard(st, n) ==
    IF st = "Ready" THEN "Running"
    ELSE IF st = "Running" /\ n > 3 THEN "Paused"
    ELSE IF st = "Running" THEN "Running"
    ELSE IF st = "Paused" THEN "Stopped"
    ELSE "break"

\* `match state {...}`, the arms tried in order; "break" for the arm that
\* leaves the loop
Transition(st, n) ==
    IF st = "Ready" THEN "Running"
    ELSE IF st = "Running" /\ n >= 3 THEN "Paused"
    ELSE IF st = "Running" THEN "Running"
    ELSE IF st = "Paused" THEN "Stopped"
    ELSE "break"

\* one iteration of the state-machine loop
MachineStep ==
    /\ mpc = "machine"
    /\ iterations' = iterations + 1
    /\ visited' = Append(visited, state)
    /\ LET nx == Transition(state, iterations') IN
       IF nx = "break"
       THEN mpc' = "tokens" /\ UNCHANGED state
       ELSE state' = nx /\ UNCHANGED mpc
    /\ UNCHANGED <<tlist, iter, processed, tout>>
    /\ UNCHANGED <<csVars, drVars, tkVars, twVars, scVars, cmVars, lzVars>>

\* slice::Iter::next: the item after the k already yielded, if any
IterNext(list, k) ==
    IF k < Len(list)
    THEN [ret |-> Some(list[k + 1]), k |-> k + 1]
    ELSE [ret |-> None, k |-> k]

\* A match whose unguarded Some(token) arm comes first.
TokenArmUnguardedFirst(item) ==
    IF item # None THEN "process"
    ELSE "exhausted"

\* `match iter.next() {...}`, the arms tried in order
TokenArm(item) ==
    IF item # None /\ item[1] = Eof THEN "eof"
    ELSE IF item # None THEN "process"
    ELSE "exhausted"

\* one iteration of the token-processing loop
TokenStep ==
    /\ mpc = "tokens"
    /\ LET r == IterNext(tlist, iter)
           arm == TokenArm(r.ret)
       IN  /\ iter' = r.k
           /\ IF arm = "process"
              THEN /\ processed' = Append(processed, r.ret[1])
                   /\ UNCHANGED <<mpc, tout>>
              ELSE /\ tout' = arm
                   /\ mpc' = "done"
                   /\ UNCHANGED processed
    /\ UNCHANGED <<state, iterations, visited, tlist>>
    /\ UNCHANGED <<csVars, drVars, tkVars, twVars, scVars, cmVars, lzVars>>

\* ========================================================== 12_cmdline

ProgramName == <<"p">>

\* 12_cmdline main, down to `let mut i = 1;`
CmdStart(a) ==
    /\ args = a
    /\ ai = 1
    /\ verbose = FALSE
    /\ number = None
    /\ positional_args = << >>
    /\ cpc = "loop"
    /\ treat = << >>
    /\ errs = << >>

CmdIdle == CmdStart(<<ProgramName>>)

\* the strings the loop compares its argument with, as texts
OptH == <<"-", "h">>
OptHelp == <<"-", "-", "h", "e", "l", "p">>
OptV == <<"-", "v">>
OptVerbose == <<"-", "-", "v", "e", "r", "b", "o", "s", "e">>
OptN == <<"-", "n">>

\* the arguments tried: the options, an unknown option, numbers with and
\* without a sign, a word, and the least number above i32::MAX
ArgWords ==
    {OptH, OptV, OptN, <<"-", "x">>, <<"4", "2">>, <<"-", "5">>, <<"f">>,
     <<"2", "1", "4", "7", "4", "8", "3", "6", "4", "8">>}

\* bound on the number of arguments after the program name
MaxArgs == 4

ArgLists == {<<ProgramName>> \o a : a \in SeqsOverUpTo(ArgWords, MaxArgs)}

I32Max == (2 ^ 30 - 1) * 2 + 1
I32Min == -I32Max - 1

Ok(v) == [ok |-> TRUE, val |-> v]
Err == [ok |-> FALSE]

DecimalDigits == <<"0", "1", "2", "3", "4", "5", "6", "7", "8", "9">>
IsDecimalDigit(c) == \E d \in 1..10 : DecimalDigits[d] = c
\* char::to_digit(10) of a decimal digit
ToDigit(c) == (CHOOSE d \in 1..10 : DecimalDigits[d] = c) - 1

\* the digit loop of i32::from_str on a positive number: checked_mul(10)
\* then checked_add(digit)
RECURSIVE ParsePositive(_, _)
ParsePositive(ds, acc) ==
    IF ds = << >> THEN Ok(acc)
    ELSE IF ~IsDecimalDigit(Head(ds)) THEN Err
    ELSE IF acc > (I32Max - ToDigit(Head(ds))) \div 10 THEN Err
    ELSE ParsePositive(Tail(ds), acc * 10 + ToDigit(Head(ds)))

\* the same on a negative number: checked_mul(10) then checked_sub(digit)
RECURSIVE ParseNegative(_, _)
ParseNegative(ds, acc) ==
    IF ds = << >> THEN Ok(acc)
    ELSE IF ~IsDecimalDigit(Head(ds)) THEN Err
    ELSE IF acc < (I32Min + ToDigit(Head(ds)) + 9) \div 10 THEN Err
    ELSE ParseNegative(Tail(ds), acc * 10 - ToDigit(Head(ds)))

\* str::parse::<i32>: an optional sign, then at least one decimal digit,
\* the value within i32
ParseI32(w) ==
    IF w = << >> \/ w = <<"+">> \/ w = <<"-">> THEN Err
    ELSE IF Head(w) = "-" THEN ParseNegative(Tail(w), 0)
    ELSE IF Head(w) = "+" THEN ParsePositive(Tail(w), 0)
    ELSE ParsePositive(w, 0)

\* arg.starts_with('-')
StartsWithDash(w) == w # << >> /\ Head(w) = "-"

\* A "-n" arm that steps over the value only when it parses.
OptionNKeepsBadValue(a, j, num) ==
    IF j < Len(a)
    THEN LET r == ParseI32(a[j + 1]) IN
         IF r.ok
         THEN [number |-> Some(r.val), err |-> None, treat |-> <<"-n", "value">>, i |-> j]
         ELSE [number |-> num, err |-> Some("not a valid number"),
               treat |-> <<"-n">>, i |-> j - 1]
    ELSE [number |-> num, err |-> Some("requires an argument"), treat |-> <<"-n">>, i |-> j]

\* the "-n" arm, entered after its `i += 1` has made the index j: what it
\* leaves in number, the error it writes if any, how it has dealt with the
\* arguments it looked at, and the index it leaves
OptionN(a, j, num) ==
    IF j < Len(a)
    THEN LET r == ParseI32(a[j + 1]) IN
         IF r.ok
         THEN [number |-> Some(r.val), err |-> None, treat |-> <<"-n", "value">>, i |-> j]
         ELSE [number |-> num, err |-> Some("not a valid number"),
               treat |-> <<"-n", "value">>, i |-> j]
    ELSE [number |-> num, err |-> Some("requires an argument"), treat |-> <<"-n">>, i |-> j]

\* the test of `while i < args.len()` and, when it holds, one iteration;
\* args[i] of the program is args[ai + 1] here
CmdStep ==
    /\ cpc = "loop"
    /\ IF ~(ai < Len(args))
       THEN /\ cpc' = "summary"
            /\ UNCHANGED <<ai, verbose, number, positional_args, treat, errs>>
       ELSE LET arg == args[ai + 1] IN
            IF arg = OptH \/ arg = OptHelp
            THEN /\ cpc' = "returned"
                 /\ treat' = Append(treat, "help")
                 /\ UNCHANGED <<ai, verbose, number, positional_args, errs>>
            ELSE IF arg = OptV \/ arg = OptVerbose
            THEN /\ verbose' = TRUE
                 /\ treat' = Append(treat, "verbose")
                 /\ ai' = ai + 1
                 /\ UNCHANGED <<cpc, number, positional_args, errs>>
            ELSE IF arg = OptN
            THEN LET r == OptionN(args, ai + 1, number) IN
                 /\ number' = r.number
                 /\ errs' = errs \o r.err
                 /\ treat' = treat \o r.treat
                 /\ ai' = r.i + 1
                 /\ UNCHANGED <<cpc, verbose, positional_args>>
            ELSE IF StartsWithDash(arg)
            THEN /\ errs' = Append(errs, "unknown option")
                 /\ treat' = Append(treat, "unknown")
                 /\ ai' = ai + 1
                 /\ UNCHANGED <<cpc, verbose, number, positional_args>>
            ELSE /\ positional_args' = Append(positional_args, arg)
                 /\ treat' = Append(treat, "positional")
                 /\ ai' = ai + 1
                 /\ UNCHANGED <<cpc, verbose, number, errs>>
    /\ UNCHANGED args
    /\ UNCHANGED <<csVars, drVars, tkVars, twVars, scVars, lmVars, lzVars>>

\* ============================================ 14_chaining: chaining is lazy

\* before `let lazy_iter = ...`
LazyStart ==
    /\ lpc = "start"
    /\ lazy_iter = [range |-> 1, n |-> 0]
    /\ evals = << >>
    /\ result = << >>

\* (1..100): the end of the range, not included
RangeEnd == 100
\* .take(3)
TakeCount == 3

\* Filter::next over the range: evaluate the closure on the next values of
\* the range until it returns true (x % 2 == 0) or the range is exhausted;
\* ev is the record of the closure's evaluations
RECURSIVE EvenFilterNext(_, _)
EvenFilterNext(r, ev) ==
    IF r >= RangeEnd
    THEN [ret |-> None, range |-> r, evals |-> ev]
    ELSE IF r % 2 = 0
         THEN [ret |-> Some(r), range |-> r + 1, evals |-> Append(ev, r)]
         ELSE EvenFilterNext(r + 1, Append(ev, r))

\* A take() that pulls its inner iterator before looking at its count.
TakePullsFirst(it, ev) ==
    LET f == EvenFilterNext(it.range, ev) IN
    IF it.n # 0
    THEN [ret |-> f.ret, it |-> [range |-> f.range, n |-> it.n - 1], evals |-> f.evals]
    ELSE [ret |-> None, it |-> [it EXCEPT !.range = f.range], evals |-> f.evals]

\* Take::next: `if self.n != 0 { self.n -= 1; self.iter.next() } else { None }`
TakeNext(it, ev) ==
    IF it.n # 0
    THEN LET f == EvenFilterNext(it.range, ev) IN
         [ret |-> f.ret, it |-> [range |-> f.range, n |-> it.n - 1], evals |-> f.evals]
    ELSE [ret |-> None, it |-> it, evals |-> ev]

\* let lazy_iter = (1..100).filter(..).take(3): the adapters are built, in
\* main after the tokenizer example has finished
LazyBuild ==
    /\ tpc = "done"
    /\ lpc = "start"
    /\ lpc' = "built"
    /\ lazy_iter' = [range |-> 1, n |-> TakeCount]
    /\ UNCHANGED <<evals, result>>
    /\ UNCHANGED <<csVars, drVars, tkVars, twVars, scVars, lmVars, cmVars>>

\* one turn of lazy_iter.collect(): pull once, push the value or stop
LazyPull ==
    /\ lpc \in {"built", "collect"}
    /\ LET r == TakeNext(lazy_iter, evals) IN
       /\ lazy_iter' = r.it
       /\ evals' = r.evals
       /\ IF r.ret # None
          THEN result' = Append(result, r.ret[1]) /\ lpc' = "collect"
          ELSE lpc' = "done" /\ UNCHANGED result
    /\ UNCHANGED <<csVars, drVars, tkVars, twVars, scVars, lmVars, cmVars>>
\* the programs a specification does not run stay as they start
RestIdle == TwoIdle /\ ScanStart /\ LoopIdle /\ CmdIdle /\ LazyStart

\* ========================================================== specifications

StreamStart(s) ==
    /\ chars = CharStreamNew(s).chars
    /\ pos = CharStreamNew(s).pos
    /\ op = "new"
    /\ ret = None
    /\ ended = FALSE
    /\ reread = FALSE
    /\ dpc = "loop"
    /\ dout = << >>

ChainStart(s) ==
    /\ input = s
    /\ idx = 0
    /\ tokens = << >>
    /\ srcs = << >>
    /\ tpc = "collect"
    /\ ends = 0

\* A CharStream over any bounded text, driven by arbitrary next()/peek() calls.
Init == (\E s \in Inputs : StreamStart(s)) /\ ChainStart(<< >>) /\ RestIdle

Next == CallNext \/ CallPeek

Spec == Init /\ [][Next]_vars

\* The texts the tokenizer chain is run over: every bounded text, the
\* program's literal, and two longer texts.
TokInputs == Inputs \cup {ScannerInput, IdentInput, LongRunInput}

TokInit == StreamStart(<< >>) /\ (\E s \in TokInputs : ChainStart(s)) /\ RestIdle

TokNext == CollectPull

TokSpec == TokInit /\ [][TokNext]_vars

\* The two draining loops (the while-let over next(), and collect() over the
\* chain), each run to completion over the same text.  Both are plain
\* sequential loops, so each takes its next turn whenever it has one.
LiveInit == (\E s \in Inputs \cup {ScannerInput} : StreamStart(s) /\ ChainStart(s)) /\ RestIdle

LiveNext == DrainStep \/ CollectPull

LiveSpec == LiveInit /\ [][LiveNext]_vars /\ WF_vars(DrainStep) /\ WF_vars(CollectPull)

\* Two CharStream instances over bounded texts, their calls interleaved in
\* every order.
TwoInit ==
    /\ StreamStart(<< >>)
    /\ ChainStart(<< >>)
    /\ \E s1, s2 \in TwoInputs : TwoStart(s1, s2)
    /\ ScanStart /\ LoopIdle /\ CmdIdle /\ LazyStart

TwoStep == \E i \in {1, 2} : TwoNext(i) \/ TwoPeek(i)

TwoSpec == TwoInit /\ [][TwoStep]_vars

\* The peek loop of 07_while_let over bounded texts.
ScanInputs == Inputs \cup {ScanInput, IdentInput}

ScanInit ==
    /\ \E s \in ScanInputs : StreamStart(s)
    /\ ChainStart(<< >>)
    /\ RestIdle

ScanNext == ScanStep

ScanSpec == ScanInit /\ [][ScanNext]_vars

\* main of 13_loop_matches: the state-machine loop, then the token loop
\* over a bounded token list.  Each loop is the only thing main is doing
\* while it runs, so each step is taken when it can be.
LoopInit ==
    /\ StreamStart(<< >>)
    /\ ChainStart(<< >>)
    /\ \E list \in TokenLists : LoopStart(list)
    /\ TwoIdle /\ ScanStart /\ CmdIdle /\ LazyStart

LoopNext == MachineStep \/ TokenStep

LoopSpec == LoopInit /\ [][LoopNext]_vars /\ WF_vars(MachineStep) /\ WF_vars(TokenStep)

\* The argument loop of 12_cmdline over bounded argument vectors.
CmdInit ==
    /\ StreamStart(<< >>)
    /\ ChainStart(<< >>)
    /\ \E a \in ArgLists : CmdStart(a)
    /\ TwoIdle /\ ScanStart /\ LoopIdle /\ LazyStart

CmdNext == CmdStep

CmdSpec == CmdInit /\ [][CmdNext]_vars

\* main of 14_chaining from the tokenizer example on: collect the tokens
\* of a bounded text, then build the lazy chain and collect it.  main does
\* one thing at a time, so each step is taken when it can be.
ChainInit == TokInit

ChainNext == CollectPull \/ LazyBuild \/ LazyPull

ChainSpec ==
    /\ ChainInit
    /\ [][ChainNext]_vars
    /\ WF_vars(CollectPull) /\ WF_vars(LazyBuild) /\ WF_vars(LazyPull)

\* ================================================================ properties

\* C1: next() (the cursor's advance) called at a position p < length returns
\* the character at index p and leaves the position at exactly p + 1; called
\* at p = length it returns None and leaves the position unchanged.
C1_NextContract ==
    [][op' = "next" =>
          IF pos < Len(chars)
          THEN ret' = Some(chars[pos + 1]) /\ pos' = pos + 1 /\ chars' = chars
          ELSE ret' = None /\ pos' = pos /\ chars' = chars]_vars

\* next() has returned the second character of a text and stands after it.
C1_Witness ==
    /\ op = "next"
    /\ pos = 2
    /\ ret = Some(chars[2])
    /\ chars[1] # chars[2]

\* C2: peek() returns the character at the current position when
\* position < length and None when position = length; it changes neither the
\* position nor the characters, so consecutive peeks return the same value.
C2_PeekPure ==
    [][op' = "peek" =>
          /\ pos' = pos
          /\ chars' = chars
          /\ ret' = (IF pos < Len(chars) THEN Some(chars[pos + 1]) ELSE None)
          /\ (op = "peek" => ret' = ret)]_vars

\* peek() has looked at a character in the middle of a text, after an advance.
C2_Witness ==
    /\ op = "peek"
    /\ pos >= 1
    /\ pos < Len(chars)
    /\ ret = Some(chars[pos + 1])

\* C3: in every state reached by any sequence of peek()/next() calls on a
\* stream over a text of length n, 0 <= position <= n, and no call leaves the
\* position smaller than it found it.
C3_PosBoundedMonotonic ==
    /\ [](pos >= 0 /\ pos <= Len(chars))
    /\ [][pos' >= pos /\ pos' <= Len(chars')]_vars

\* The stream has been advanced to the very end of a non-empty text and next()
\* has been called again there.
C3_Witness ==
    /\ Len(chars) = MaxLen
    /\ pos = Len(chars)
    /\ op = "next"
    /\ ret = None

\* C4: for every finite text, each draining loop reaches its end marker after
\* finitely many calls: the while-let over next() gets None and exits, and
\* collect() gets None from the chain and returns.
C4_DrainTerminates == <>(dpc = "done" /\ tpc = "done")

\* Both loops have finished over a text they had to take several turns on.
C4_Witness ==
    /\ dpc = "done"
    /\ tpc = "done"
    /\ Len(dout) = MaxLen
    /\ Len(tokens) >= 2

\* C5: once next() has returned None, every later call returns None again and
\* changes neither the position nor the characters.
C5_EndAbsorbing ==
    [][ended => (ret' = None /\ pos' = pos /\ chars' = chars /\ ended')]_vars

\* A call has been made on a non-empty stream after next() had returned None.
C5_Witness ==
    /\ reread
    /\ op = "next"
    /\ ret = None
    /\ Len(chars) >= 1

EndOfInputCount == Cardinality({k \in 1..Len(tokens) : tokens[k].kind = "EndOfInput"})

\* C6 as written: the finished token sequence holds exactly one EndOfInput
\* token, and it is the last element.
C6_Original ==
    tpc = "done" =>
        /\ Len(tokens) >= 1
        /\ tokens[Len(tokens)].kind = "EndOfInput"
        /\ EndOfInputCount = 1

\* C6 amended: the token sequence holds no EndOfInput token at all; the end of
\* the sequence is signalled by the chain returning None, which happens once,
\* only after every character of the text has been consumed, and exactly
\* when collect() finishes; no token is pushed after it.
C6_EndSignalledOnce ==
    /\ [](/\ EndOfInputCount = 0
          /\ ends = (IF tpc = "done" THEN 1 ELSE 0)
          /\ (ends = 1 => idx = Len(input)))
    /\ [][tpc = "done" => tokens' = tokens]_vars

\* collect() has finished over a text that has a space before its last token.
C6_Witness ==
    /\ tpc = "done"
    /\ ends = 1
    /\ Len(tokens) >= 2
    /\ \E i \in 1..Len(input) - 1 : input[i] = " " /\ input[i + 1] # " "

\* ------------------------------------------------- reference notions of text
DigitChars == {"0", "1", "2", "3", "4", "5", "6", "7", "8", "9"}
OperatorChars == {"+", "-", "*", "/"}
\* the characters of the alphabet for which char::is_whitespace is true
WhitespaceChars == {" ", "\t"}

DigitValue(c) ==
    CASE c = "0" -> 0 [] c = "1" -> 1 [] c = "2" -> 2 [] c = "3" -> 3 [] c = "4" -> 4
      [] c = "5" -> 5 [] c = "6" -> 6 [] c = "7" -> 7 [] c = "8" -> 8 [] c = "9" -> 9

CountIn(text, S) == Cardinality({i \in 1..Len(text) : text[i] \in S})
TokensFrom(S) == {k \in 1..Len(tokens) : input[srcs[k]] \in S}
TokensOfKind(kd) == {k \in 1..Len(tokens) : tokens[k].kind = kd}

\* first index of the maximal digit run that holds index i
RECURSIVE RunStart(_, _)
RunStart(text, i) ==
    IF i > 1 /\ text[i - 1] \in DigitChars THEN RunStart(text, i - 1) ELSE i

\* positional value of the digits from index i to the end of their run
RECURSIVE RunValue(_, _, _)
RunValue(text, i, acc) ==
    IF i <= Len(text) /\ text[i] \in DigitChars
    THEN RunValue(text, i + 1, acc * 10 + DigitValue(text[i]))
    ELSE acc

RECURSIVE StripSpaces(_)
StripSpaces(text) ==
    IF text = << >> THEN << >>
    ELSE IF Head(text) = " " THEN StripSpaces(Tail(text))
         ELSE <<Head(text)>> \o StripSpaces(Tail(text))

\* C7 as written: "12 + 34 - 5" gives
\* [Number(12), Plus, Number(34), Minus, Number(5), EndOfInput].
C7_Original ==
    (input = ScannerInput /\ tpc = "done") =>
        tokens = <<Number(12), Plus, Number(34), Minus, Number(5),
                   [kind |-> "EndOfInput"]>>

\* C7 amended: "12 + 34 - 5" gives
\* [Number(1), Number(2), Plus, Number(3), Number(4), Minus, Number(5)]:
\* one Number per digit and no end token.
C7_PerCharacterTokens ==
    (input = ScannerInput /\ tpc = "done") =>
        /\ Len(tokens) = 7
        /\ \A k \in {1, 2, 4, 5, 7} : tokens[k].kind = "Number"
        /\ <<tokens[1].val, tokens[2].val>> = <<1, 2>>
        /\ tokens[3].kind = "Plus"
        /\ <<tokens[4].val, tokens[5].val>> = <<3, 4>>
        /\ tokens[6].kind = "Minus"
        /\ tokens[7].val = 5

\* collect() has finished over the program's literal.
C7_Witness == input = ScannerInput /\ tpc = "done" /\ idx = Len(ScannerInput)

\* C8 as written: a maximal run of digits gives one Number token holding the
\* positional value of the whole run, and two adjacent digits never give two
\* Number tokens.
C8_Original ==
    \A k \in TokensOfKind("Number") :
        /\ tokens[k].val = RunValue(input, RunStart(input, srcs[k]), 0)
        /\ \A j \in TokensOfKind("Number") : j # k => srcs[j] # srcs[k] + 1

\* C8 amended: every decimal digit gives its own Number token whose value is
\* that single digit (0..9), and only digits give Number tokens; a run of k
\* digits therefore gives k Number tokens, never one token with the
\* positional value of the run.
C8_OneNumberPerDigit ==
    /\ TokensOfKind("Number") = TokensFrom(DigitChars)
    /\ \A k \in TokensOfKind("Number") :
          tokens[k].val = DigitValue(input[srcs[k]]) /\ tokens[k].val \in 0..9
    /\ (tpc = "done" => Cardinality(TokensOfKind("Number")) = CountIn(input, DigitChars))

\* Two adjacent digits have given two Number tokens.
C8_Witness ==
    /\ tpc = "done"
    /\ \E k \in 1..Len(tokens) - 1 :
          /\ tokens[k].kind = "Number" /\ tokens[k + 1].kind = "Number"
          /\ srcs[k + 1] = srcs[k] + 1
          /\ tokens[k].val # tokens[k + 1].val

\* C9 as written: '+', '-', '*', '/' give Plus, Minus, Star, Slash.
C9_Original ==
    \A k \in 1..Len(tokens) :
        LET c == input[srcs[k]] IN
        /\ (c = "+" => tokens[k].kind = "Plus")
        /\ (c = "-" => tokens[k].kind = "Minus")
        /\ (c = "*" => tokens[k].kind = "Star")
        /\ (c = "/" => tokens[k].kind = "Slash")

\* C9 amended: '+' gives Plus and '-' gives Minus; '*' and '/' give
\* Unknown('*') and Unknown('/'), the Token type having no Star or Slash.
\* Each of the four consumes exactly one character: right after its token
\* is pushed the chain stands just behind that character, and the finished
\* sequence holds one token per operator character.
C9_OperatorTokens ==
    /\ \A k \in 1..Len(tokens) :
          LET c == input[srcs[k]] IN
          /\ (c = "+" <=> tokens[k].kind = "Plus")
          /\ (c = "-" <=> tokens[k].kind = "Minus")
          /\ (c \in {"*", "/"} => tokens[k].kind = "Unknown" /\ tokens[k].ch = c)
    /\ (tokens # << >> /\ tpc = "collect") => idx = srcs[Len(tokens)]
    /\ (tpc = "done" => Cardinality(TokensFrom(OperatorChars)) = CountIn(input, OperatorChars))

\* A '+' has given Plus and a '*' has given Unknown('*').
C9_Witness ==
    /\ \E k \in 1..Len(tokens) : input[srcs[k]] = "+" /\ tokens[k].kind = "Plus"
    /\ \E k \in 1..Len(tokens) : input[srcs[k]] = "*" /\ tokens[k].kind = "Unknown"

\* C10 as written: no token comes from a whitespace character, whichever
\* whitespace character it is.
C10_Original == TokensFrom(WhitespaceChars) = {}

\* C10 amended: only the space character ' ' is skipped and gives no token;
\* any other whitespace character, such as the tab, gives Unknown.  Space
\* characters added anywhere do not change the token sequence: the tokens of
\* a text are the tokens of the text with its spaces removed.
C10_OnlySpaceSkipped ==
    /\ TokensFrom({" "}) = {}
    /\ TokensOfKind("Whitespace") = {}
    /\ \A k \in TokensFrom({"\t"}) : tokens[k].kind = "Unknown" /\ tokens[k].ch = "\t"
    /\ tpc = "done" =>
          /\ tokens = CollectFrom(StripSpaces(input), 0)
          /\ Len(tokens) = Len(StripSpaces(input))

\* A text with a space and a tab has been tokenized: the tab gave a token.
C10_Witness ==
    /\ tpc = "done"
    /\ CountIn(input, {" "}) >= 1
    /\ TokensFrom({"\t"}) # {}

\* ------------------------------------------ the character classes of the text
LetterChars == {"a", "f", "o"}
\* neither digit, letter, underscore, double quote, operator nor whitespace
ResidualChars == {"@"}

\* every character of the text that is not a space has given a token
AllNonSpaceTokenized ==
    \A i \in 1..Len(input) : input[i] # " " => \E k \in 1..Len(tokens) : srcs[k] = i

\* C11 as written (its example): "@@" gives
\* [Unknown('@'), Unknown('@'), EndOfInput].
C11_Original ==
    (input = <<"@", "@">> /\ tpc = "done") =>
        /\ Len(tokens) = 3
        /\ tokens[1].kind = "Unknown" /\ tokens[2].kind = "Unknown"
        /\ tokens[3].kind = "EndOfInput"

\* C11 amended: a character that is none of digit, letter, underscore, double
\* quote, + - * /, whitespace consumes exactly one character and gives
\* Unknown carrying that character, and the rest of the text is still
\* tokenized; "@@" gives [Unknown('@'), Unknown('@')], with no end token.
C11_UnknownAndContinue ==
    /\ \A k \in TokensFrom(ResidualChars) :
          /\ tokens[k].kind = "Unknown"
          /\ tokens[k].ch = input[srcs[k]]
          /\ (k = Len(tokens) /\ tpc = "collect" => idx = srcs[k])
    /\ tpc = "done" =>
          /\ Cardinality(TokensFrom(ResidualChars)) = CountIn(input, ResidualChars)
          /\ AllNonSpaceTokenized
    /\ (input = <<"@", "@">> /\ tpc = "done") =>
          /\ Len(tokens) = 2
          /\ \A k \in {1, 2} : tokens[k].kind = "Unknown" /\ tokens[k].ch = "@"

\* An '@' has given Unknown and the character after it has given a Number.
C11_Witness ==
    /\ tpc = "done"
    /\ \E k \in 1..Len(tokens) - 1 :
          /\ input[srcs[k]] = "@" /\ tokens[k].kind = "Unknown"
          /\ tokens[k + 1].kind = "Number"

KindsOf(ts) == [k \in 1..Len(ts) |-> ts[k].kind]

\* C12 as written (its example): "foo_1 + 2" gives
\* [Identifier("foo_1"), Plus, Number(2), EndOfInput].
C12_Original ==
    (input = IdentInput /\ tpc = "done") =>
        KindsOf(tokens) = <<"Identifier", "Plus", "Number", "EndOfInput">>

\* C12 amended: no Identifier token is ever produced: every letter and every
\* underscore gives its own Unknown token carrying that character, and a
\* digit inside the run gives a Number; "foo_1 + 2" gives [Unknown('f'),
\* Unknown('o'), Unknown('o'), Unknown('_'), Number(1), Plus, Number(2)].
C12_LettersAreUnknown ==
    /\ TokensOfKind("Identifier") = {}
    /\ \A k \in TokensFrom(LetterChars \cup {"_"}) :
          tokens[k].kind = "Unknown" /\ tokens[k].ch = input[srcs[k]]
    /\ (input = IdentInput /\ tpc = "done") =>
          /\ KindsOf(tokens) = <<"Unknown", "Unknown", "Unknown", "Unknown",
                                 "Number", "Plus", "Number">>
          /\ [k \in 1..4 |-> tokens[k].ch] = <<"f", "o", "o", "_">>
          /\ <<tokens[5].val, tokens[7].val>> = <<1, 2>>

\* collect() has finished over "foo_1 + 2".
C12_Witness == input = IdentInput /\ tpc = "done" /\ idx = Len(IdentInput)

\* ------------------------------------------------------------ string literals
QuoteChar == "\""
QuoteIndexes(text) == {i \in 1..Len(text) : text[i] = QuoteChar}
Max(S) == CHOOSE x \in S : \A y \in S : y <= x

\* index of the opening quote that no later quote closes, or 0: quotes pair up
\* from the left (the alphabet has no escape character)
UnterminatedAt(text) ==
    IF Cardinality(QuoteIndexes(text)) % 2 = 1 THEN Max(QuoteIndexes(text)) ELSE 0

\* the variants of the tokenizer's Token
TokenKinds == {"Number", "Plus", "Minus", "Whitespace", "Unknown"}
\* outputs of the chain that are not a Token variant (a failure report)
Reported == {k \in 1..Len(tokens) : tokens[k].kind \notin TokenKinds}

\* C13 as written: a text that ends inside a string literal gives no token
\* for the literal (nothing from the opening quote on), a failure report
\* distinct from the normal tokens, and then the end marker.
C13_Original ==
    (tpc = "done" /\ UnterminatedAt(input) > 0) =>
        /\ \A k \in 1..Len(tokens) : srcs[k] < UnterminatedAt(input)
        /\ Reported # {}
        /\ ends = 1

\* C13 amended: a text that ends after an opening double quote gives no
\* StringLiteral token and no failure report: the quote gives Unknown('"')
\* like any unclassified character, every character after it is tokenized on
\* its own, and the chain then returns None.
C13_QuoteIsUnknown ==
    /\ TokensOfKind("StringLiteral") = {}
    /\ Reported = {}
    /\ \A k \in TokensFrom({QuoteChar}) :
          tokens[k].kind = "Unknown" /\ tokens[k].ch = QuoteChar
    /\ (tpc = "done" /\ UnterminatedAt(input) > 0) =>
          /\ \E k \in 1..Len(tokens) : srcs[k] = UnterminatedAt(input)
          /\ AllNonSpaceTokenized
          /\ ends = 1

\* collect() has finished over a text made of an opening quote followed by
\* other characters.
C13_Witness ==
    /\ tpc = "done"
    /\ UnterminatedAt(input) = 1
    /\ Len(input) >= 2
    /\ Len(tokens) = Len(input)

QuotedA == <<QuoteChar, "a", QuoteChar>>

\* C14 as written: an opening quote with a later closing quote gives one
\* StringLiteral token, and the two delimiters give no token of their own.
C14_Original ==
    (tpc = "done" /\ Cardinality(QuoteIndexes(input)) = 2) =>
        /\ Cardinality(TokensOfKind("StringLiteral")) = 1
        /\ TokensFrom({QuoteChar}) = {}

\* C14 amended: a double quote followed later by a closing double quote gives
\* no StringLiteral token: each of the two quotes gives its own
\* Unknown('"') token and every character between them is tokenized on its
\* own, so the delimiters are not excluded and nothing is gathered into one
\* content; "a" in quotes gives [Unknown('"'), Unknown('a'), Unknown('"')].
C14_NoStringLiteral ==
    /\ TokensOfKind("StringLiteral") = {}
    /\ (tpc = "done" /\ Cardinality(QuoteIndexes(input)) = 2) =>
          /\ QuoteIndexes(input) \subseteq {srcs[k] : k \in TokensOfKind("Unknown")}
          /\ \A i \in 1..Len(input) :
                input[i] # " " =>
                    \E k \in 1..Len(tokens) :
                        /\ srcs[k] = i
                        /\ (tokens[k].kind = "Unknown" => tokens[k].ch = input[i])
    /\ (tpc = "done" /\ input = QuotedA) =>
          /\ KindsOf(tokens) = <<"Unknown", "Unknown", "Unknown">>
          /\ [k \in 1..3 |-> tokens[k].ch] = QuotedA

\* collect() has finished over a text with a character between two quotes.
C14_Witness ==
    /\ tpc = "done"
    /\ input = QuotedA
    /\ Len(tokens) = 3

\* ------------------------------------------------------------- source spans
\* Every token is mapped from one character, so the source span of tokens[k]
\* is the single index srcs[k]; the spans concatenated are these characters.
SpanText == [k \in 1..Len(tokens) |-> input[srcs[k]]]

SpansOrdered ==
    /\ \A k \in 1..Len(tokens) : srcs[k] \in 1..Len(input) /\ srcs[k] <= idx
    /\ \A j, k \in 1..Len(tokens) : j < k => srcs[j] < srcs[k]

RECURSIVE StripWhitespace(_)
StripWhitespace(text) ==
    IF text = << >> THEN << >>
    ELSE IF Head(text) \in WhitespaceChars THEN StripWhitespace(Tail(text))
         ELSE <<Head(text)>> \o StripWhitespace(Tail(text))

\* C15 as written: the spans are non-empty, disjoint and in input order, and
\* concatenated they give the text with all whitespace removed.
C15_Original ==
    /\ Len(srcs) = Len(tokens)
    /\ SpansOrdered
    /\ (tpc = "done" => SpanText = StripWhitespace(input))

\* C15 amended: the spans are non-empty (one character each), disjoint and in
\* input order, and concatenated they give the text with its space
\* characters removed; other whitespace characters stay, as the spans of
\* Unknown tokens.
C15_SpansCoverNonSpaces ==
    /\ Len(srcs) = Len(tokens)
    /\ SpansOrdered
    /\ (tpc = "done" => SpanText = StripSpaces(input))

\* collect() has finished over a text with a space between two tokens and a
\* tab that kept its span.
C15_Witness ==
    /\ tpc = "done"
    /\ Len(tokens) >= 2
    /\ Len(tokens) < Len(input)
    /\ "\t" \in {input[srcs[k]] : k \in 1..Len(tokens)}

\* ------------------------------------------------------------------ cursor
\* C16: every next() call that returns a character (anything but the end
\* marker) leaves the position strictly greater than it was before the
\* call, and the position never exceeds the length of the text.
C16_ProgressPerItem ==
    /\ [][(op' = "next" /\ ret' # None) => pos' > pos]_vars
    /\ [](pos <= Len(chars))

\* next() has just returned the last character of a full-length text.
C16_Witness ==
    /\ op = "next"
    /\ ret # None
    /\ pos = Len(chars)
    /\ Len(chars) >= 2
    /\ ~ended

\* C17: no next() or peek() call panics or indexes outside the characters in
\* any reachable state, however many calls are made at the end of the text;
\* the end of the text shows only as None, and None shows only there.
C17_NoPanic ==
    /\ ret # Panicked
    /\ pos <= Len(chars)
    /\ op = "peek" => (ret = None <=> pos = Len(chars))
    /\ op = "next" => /\ ret = None => pos = Len(chars)
                      /\ ret # None => pos >= 1 /\ ret = Some(chars[pos])
    /\ ended => pos = Len(chars)

\* peek() has been called after next() had already returned None.
C17_Witness ==
    /\ reread
    /\ op = "peek"
    /\ ret = None
    /\ Len(chars) >= 1

\* -------------------------------------------------------------- dispatch
\* the named character classes of the text (the residual class is the rest)
NamedClasses ==
    {DigitChars, LetterChars \cup {"_"}, {QuoteChar}, OperatorChars, WhitespaceChars}

\* C18: the token of a character depends on that character alone, and the
\* character classes overlap nowhere, so exactly one dispatch rule (one arm
\* of the match) applies to any character the chain has consumed: the token
\* at that character, if the filter kept one, is the one that arm builds.
C18_OneRulePerCharacter ==
    /\ \A i \in 1..idx :
          /\ Cardinality({S \in NamedClasses : input[i] \in S}) <= 1
          /\ Cardinality(ArmsApplying(input[i])) = 1
          /\ \A k \in 1..Len(tokens) :
                srcs[k] = i => tokens[k].kind \in ArmsApplying(input[i])
          /\ ArmsApplying(input[i]) # {"Whitespace"}
                => \E k \in 1..Len(tokens) : srcs[k] = i
    /\ \A j, k \in 1..Len(tokens) :
          input[srcs[j]] = input[srcs[k]] => tokens[j] = tokens[k]

\* The same character has been tokenized at two places with another
\* character between them, and characters of three arms have been consumed.
C18_Witness ==
    /\ tpc = "done"
    /\ \E j, k \in 1..Len(tokens) :
          /\ j + 1 < k
          /\ input[srcs[j]] = input[srcs[k]]
          /\ input[srcs[j]] # input[srcs[j + 1]]
    /\ Cardinality({tokens[k].kind : k \in 1..Len(tokens)}) >= 2

\* ------------------------------------------------- empty and blank texts
OnlyOf(text, S) == \A i \in 1..Len(text) : text[i] \in S

\* C19 as written: for the empty text and for a text of whitespace only, the
\* first pull returns the end marker and no token is ever produced.
C19_Original ==
    OnlyOf(input, WhitespaceChars) =>
        /\ tokens = << >>
        /\ (tpc = "collect" => idx = 0)

\* C19 amended: for the empty text and for a text of space characters only,
\* the first pull of the chain returns None, having consumed the whole text,
\* and the collected sequence is empty (it holds no EndOfInput token); a
\* text of tabs gives one Unknown token per tab.  On an empty CharStream the
\* first next() returns None and the draining loop prints nothing.
C19_BlankGivesNothing ==
    /\ OnlyOf(input, {" "}) =>
          /\ tokens = << >>
          /\ (tpc = "collect" => idx = 0 /\ ends = 0)
          /\ (tpc = "done" => idx = Len(input) /\ ends = 1)
    /\ (OnlyOf(input, {"\t"}) /\ tpc = "done") =>
          /\ Len(tokens) = Len(input)
          /\ OnlyOf(KindsOf(tokens), {"Unknown"})
    /\ (chars = << >> /\ op = "next") =>
          /\ ret = None
          /\ dout = << >>
          /\ dpc = "done"

\* collect() has finished over a text of several spaces, which the draining
\* loop has printed one by one.
C19_Witness ==
    /\ Len(input) >= 2
    /\ OnlyOf(input, {" "})
    /\ tpc = "done"
    /\ tokens = << >>
    /\ dpc = "done"
    /\ dout = chars

\* ---------------------------------------------------------------- overflow
\* C20 as written: a digit run too long for the integer type gives one
\* output for the run, a saturated Number or an overflow report.
C20_Original ==
    (input = LongRunInput /\ tpc = "done") =>
        /\ Len(tokens) = 1
        /\ (tokens[1].kind = "Number" \/ Reported # {})

\* C20 amended: a digit run whose value exceeds the i64 range never gives a
\* wrapped-around Number, because no value is accumulated: every digit gives
\* its own Number holding that digit, in 0..9; nothing saturates and no
\* overflow is reported.
C20_NoOverflowPossible ==
    /\ \A k \in TokensOfKind("Number") :
          tokens[k].val \in 0..9 /\ tokens[k].val = DigitValue(input[srcs[k]])
    /\ Reported = {}
    /\ (input = LongRunInput /\ tpc = "done") =>
          /\ Len(tokens) = LongRunLen
          /\ \A k \in 1..Len(tokens) : tokens[k].kind = "Number" /\ tokens[k].val = 9

\* collect() has finished over the run of nines.
C20_Witness ==
    /\ input = LongRunInput
    /\ tpc = "done"
    /\ Len(input) > 19

\* ------------------------------------------------------------ two instances
OpsOf(log) == [k \in 1..Len(log) |-> log[k].op]

\* C21: two instances built over the same text start at position 0 and,
\* given the same sequence of calls, return the same results at every step
\* (one log is a prefix of the other whenever its calls are); no call ever
\* moves an instance back or changes its text, so an exhausted instance
\* stays exhausted.
C21_SameInputSameResults ==
    /\ [](/\ \A i \in {1, 2} : logs[i] = << >> => insts[i].pos = 0
          /\ (insts[1].chars = insts[2].chars /\ OpsOf(logs[1]) = OpsOf(logs[2]))
                => (logs[1] = logs[2] /\ insts[1].pos = insts[2].pos))
    /\ [][\A i \in {1, 2} :
             /\ insts'[i].pos >= insts[i].pos
             /\ insts'[i].chars = insts[i].chars
             /\ (insts[i].pos = Len(insts[i].chars) => insts'[i].pos = insts[i].pos)]_vars

\* Both instances, over the same two-character text, have been driven to
\* the end by the same calls, taken in turns.
C21_Witness ==
    /\ insts[1].chars = insts[2].chars
    /\ Len(insts[1].chars) = 2
    /\ OpsOf(logs[1]) = <<"next", "next">>
    /\ OpsOf(logs[2]) = <<"next", "next">>
    /\ sched = <<1, 2, 1, 2>>

\* C22: whatever the interleaving, each instance returns the results it
\* would return to the same calls when run alone, and its position is the
\* one it would have alone; a call on one instance changes neither the
\* position nor the text of the other.
C22_InstancesIndependent ==
    /\ [](\A i \in {1, 2} :
             /\ logs[i] = Replay(CharStreamNew(insts[i].chars), OpsOf(logs[i]))
             /\ insts[i].pos = Cardinality({k \in 1..Len(logs[i]) :
                                   logs[i][k].op = "next" /\ logs[i][k].ret # None}))
    /\ [][\A i \in {1, 2} : logs'[i] = logs[i] => insts'[i] = insts[i]]_vars

\* Calls on two instances over different texts have been interleaved, and
\* both have advanced.
C22_Witness ==
    /\ insts[1].chars # insts[2].chars
    /\ sched = <<1, 2, 2, 1>>
    /\ insts[1].pos = 2
    /\ insts[2].pos >= 1

\* ------------------------------------------------------------ peek then next
\* C24: in every state peek() and a next() made right after it return the
\* same value: a Some(c) from peek() is followed by Some(c) from next(),
\* which advances the position by exactly one, and peek() is None exactly
\* when next() is None (and then the position stays).
C24_PeekThenNext ==
    /\ [](LET p == CharStreamPeek(Stream)
              n == CharStreamNext(p.st)
          IN  /\ n.ret = p.ret
              /\ (p.ret = None) <=> (n.ret = None)
              /\ p.ret # None => n.st.pos = pos + 1
              /\ p.ret = None => n.st.pos = pos)
    /\ [][(op = "peek" /\ op' = "next")
             => /\ ret' = ret
                /\ pos' = (IF ret = None THEN pos ELSE pos + 1)]_vars

\* peek() has just returned a character in the middle of a text, so the
\* next() that follows has something to return.
C24_Witness ==
    /\ op = "peek"
    /\ pos = 1
    /\ Len(chars) = MaxLen
    /\ ret = Some(chars[2])

\* ------------------------------------------------------------ the peek loop
\* the length of the longest alphanumeric prefix of text
AlnumPrefixLen(text) ==
    CHOOSE k \in 0..Len(text) :
        /\ \A j \in 1..k : IsAlphanumeric(text[j])
        /\ (k = Len(text) \/ ~IsAlphanumeric(text[k + 1]))

\* C25: the peek loop consumes exactly the longest alphanumeric prefix of
\* the text, in order: what it has found is always the consumed prefix, it
\* never goes past the longest alphanumeric prefix, and when it exits the
\* position is at the first non-alphanumeric character, which the last
\* peek() returned and nothing consumed, or at the length of the text.
C25_ScanMaximalPrefix ==
    /\ found = SubSeq(chars, 1, pos)
    /\ pos <= AlnumPrefixLen(chars)
    /\ spc # "loop" => pos = AlnumPrefixLen(chars)
    /\ spc = "broke" => /\ pos < Len(chars)
                        /\ ~IsAlphanumeric(chars[pos + 1])
                        /\ lastPeek = Some(chars[pos + 1])
    /\ spc = "end" => pos = Len(chars) /\ lastPeek = None

\* The loop has left "foo_1 + 2" at the underscore, after three characters.
C25_Witness ==
    /\ chars = IdentInput
    /\ spc = "broke"
    /\ found = <<"f", "o", "o">>
    /\ lastPeek = Some("_")

\* ------------------------------------------------- one token per character
\* the indexes of the first n characters of text that are not ' '
NonSpaceIndexes(text, n) == {i \in 1..n : text[i] # " "}

\* C26: the tokenizer emits exactly one token per character other than ' ',
\* in input order: the tokens collected so far come from the non-space
\* characters consumed so far, each from one character and in increasing
\* order of position, so that at the end the output is as long as the
\* number of non-space characters; no Whitespace token is in the output
\* and every Number token carries one digit value in 0..9.
C26_OneTokenPerNonSpace ==
    /\ {srcs[k] : k \in 1..Len(srcs)} = NonSpaceIndexes(input, idx)
    /\ Len(srcs) = Len(tokens)
    /\ \A k \in 1..(Len(srcs) - 1) : srcs[k] < srcs[k + 1]
    /\ tpc = "done" => Len(tokens) = Cardinality(NonSpaceIndexes(input, Len(input)))
    /\ \A k \in 1..Len(tokens) :
          /\ tokens[k].kind # "Whitespace"
          /\ tokens[k].kind = "Number" => tokens[k].val \in 0..9

\* A digit, a space and a tab have been tokenized: the space gave nothing,
\* the tab, which is not ' ', gave a token.
C26_Witness ==
    /\ input = <<"2", " ", "\t">>
    /\ tpc = "done"
    /\ tokens = <<Number(2), Unknown("\t")>>

\* ------------------------------------------------------- 13_loop_matches
HasEof(list) == \E k \in 1..Len(list) : list[k] = Eof

\* the index of the first Eof of a list that has one
FirstEof(list) ==
    CHOOSE k \in 1..Len(list) : list[k] = Eof /\ \A j \in 1..(k - 1) : list[j] # Eof

\* C27: the token loop ends; for a list that contains Eof it stops at the
\* first Eof, having processed every token before it once and in order and
\* none after it; the "Iterator exhausted unexpectedly" arm is taken only
\* for a list without Eof, all of whose tokens have then been processed.
C27_StopsAtFirstEof ==
    /\ <>(mpc = "done")
    /\ [](/\ processed = SubSeq(tlist, 1, Len(processed))
          /\ ~HasEof(processed)
          /\ tout = "exhausted" => ~HasEof(tlist)
          /\ mpc = "done" =>
                IF HasEof(tlist)
                THEN /\ tout = "eof"
                     /\ iter = FirstEof(tlist)
                     /\ processed = SubSeq(tlist, 1, FirstEof(tlist) - 1)
                ELSE /\ tout = "exhausted"
                     /\ processed = tlist)
    /\ [][mpc = "done" => UNCHANGED <<processed, iter, tout>>]_vars

\* The loop has stopped at an Eof that has a token before it and one after.
C27_Witness ==
    /\ tlist = <<Number(1), Eof, Plus>>
    /\ mpc = "done"
    /\ tout = "eof"
    /\ processed = <<Number(1)>>

StateRank(st) ==
    CASE st = "Ready" -> 0 [] st = "Running" -> 1 [] st = "Paused" -> 2 [] st = "Stopped" -> 3

MachineTrace == <<"Ready", "Running", "Running", "Paused", "Stopped">>

\* C28: the state-machine loop started in Ready ends, after exactly 5
\* iterations that visit Ready, Running, Running, Paused, Stopped in that
\* order; the state never moves back in the order Ready < Running < Paused
\* < Stopped, and the loop is left from Stopped only.
C28_MachineRunsFiveSteps ==
    /\ <>(mpc # "machine")
    /\ [](/\ iterations = Len(visited)
          /\ visited = SubSeq(MachineTrace, 1, Len(visited))
          /\ mpc # "machine" => iterations = 5 /\ visited = MachineTrace)
    /\ [][StateRank(state') >= StateRank(state)]_vars
    /\ [][(mpc = "machine" /\ mpc' # "machine") => state = "Stopped"]_vars

\* The state-machine loop has just been left.
C28_Witness ==
    /\ mpc = "tokens"
    /\ state = "Stopped"
    /\ iterations = 5
    /\ iter = 0

\* ------------------------------------------------------------ 12_cmdline
\* the arguments handled by the positional arm, in order
RECURSIVE PositionalsOf(_, _, _)
PositionalsOf(a, tr, j) ==
    IF j > Len(tr) THEN << >>
    ELSE (IF tr[j] = "positional" THEN <<a[j + 1]>> ELSE << >>) \o PositionalsOf(a, tr, j + 1)

\* C29: the argument right after a "-n" that the loop handles as the option
\* is always taken as its value and never handled as a flag or a
\* positional argument, whatever it is: -v does not set verbose, -h does
\* not return, it is not reported as an unknown option and it is not pushed
\* to positional_args.  When "-n" is the last argument, or its value does
\* not parse as i32, exactly one error is written and number keeps the
\* value it had; when the value parses, number becomes that value.
C29_ValueOfNConsumed ==
    /\ [](/\ \A j \in 1..Len(treat) :
                /\ (treat[j] = "-n" /\ j < Len(treat)) => treat[j + 1] = "value"
                /\ treat[j] = "-n" => (args[j + 1] = OptN /\ (j < Len(treat) \/ j = Len(args) - 1))
                /\ treat[j] = "value" <=> (j > 1 /\ treat[j - 1] = "-n")
          /\ verbose = (\E j \in 1..Len(treat) : treat[j] = "verbose")
          /\ (cpc = "returned") = (\E j \in 1..Len(treat) : treat[j] = "help")
          /\ positional_args = PositionalsOf(args, treat, 1)
          /\ Len(errs) = Cardinality({j \in 1..Len(treat) :
                            \/ treat[j] = "unknown"
                            \/ treat[j] = "-n" /\ j = Len(args) - 1
                            \/ treat[j] = "value" /\ ~ParseI32(args[j + 1]).ok}))
    /\ [][(Len(treat') > Len(treat) /\ treat'[Len(treat) + 1] = "-n") =>
             LET j == Len(treat) + 1 IN
             IF j = Len(args) - 1
             THEN number' = number /\ errs' = Append(errs, "requires an argument")
             ELSE IF ParseI32(args[j + 2]).ok
             THEN number' = Some(ParseI32(args[j + 2]).val) /\ errs' = errs
             ELSE number' = number /\ errs' = Append(errs, "not a valid number")]_vars

\* "-n 42 -n -h": the first -n has set number, the second has taken -h as
\* its value, which is no number: an error, number still 42, no return.
C29_Witness ==
    /\ args = <<ProgramName, OptN, <<"4", "2">>, OptN, OptH>>
    /\ cpc = "summary"
    /\ number = Some(42)
    /\ errs = <<"not a valid number">>
    /\ treat = <<"-n", "value", "-n", "value">>

\* ---------------------------------------------------------- chaining is lazy
\* C30: the filter closure is not evaluated when the chain is built, only
\* while collect() runs; it is then evaluated on 1, 2, 3, ... in increasing
\* order, each value once, and on nothing after 6: once take(3) has given
\* its third element no further evaluation happens, and collect() ends
\* with [2, 4, 6] after exactly the evaluations 1 to 6.
C30_FilterRunsLazily ==
    /\ <>(lpc = "done")
    /\ [](/\ lpc \in {"start", "built"} => evals = << >> /\ result = << >>
          /\ evals = [k \in 1..Len(evals) |-> k]
          /\ result = [k \in 1..Len(result) |-> 2 * k]
          /\ Len(evals) = 2 * Len(result)
          /\ Len(result) <= 3
          /\ lpc = "done" => evals = <<1, 2, 3, 4, 5, 6>> /\ result = <<2, 4, 6>>)
    /\ [][lpc = "start" => evals' = << >>]_vars
    /\ [][Len(result) = 3 => evals' = evals /\ result' = result]_vars

\* collect() has returned.
C30_Witness ==
    /\ lpc = "done"
    /\ lazy_iter.n = 0
    /\ evals = <<1, 2, 3, 4, 5, 6>>
    /\ result = <<2, 4, 6>>

====
